---- MODULE Spec2Model ----
(***************************************************************************)
(* A model of the expense-message interpreter of budget-bot-rust:          *)
(* the tokenizer, the Amount type, the category classifier and             *)
(* RawMessageParser::handle_message.                                       *)
(*                                                                         *)
(* A Rust String / &str is a sequence of one-character strings.  The       *)
(* characters are the ASCII ones listed in ASCII below, in byte order.     *)
(***************************************************************************)
EXTENDS Integers, Sequences, FiniteSets, TLC

VARIABLES
    categories,   \* Categorizer.categories: None, or Some(the BTreeSet as the sequence of its elements in ascending Ord order)
    firstAdded,   \* history: the first category handed to add_category (None before)
    added,        \* history: the add_category call in progress while loading: its argument, self.categories before it, the bool it returned (None otherwise)
    phase,        \* where the program is: "loading", "idle", "received", "replied", "panicked"; "text", "tokens", "described" for bare tokenize and extract_description calls; "message", "resolved" for a bare parse_date_shift call
    inp,          \* the Input being handled (None when there is none)
    tokens,       \* the value of tokenize(&input.text) of the last call (None before)
    classified,   \* the value the call of Categorizer::classify returned in the last handle_message (None before the call)
    today,        \* the value Local::today() had in the last handle_message
    out,          \* the value handle_message returned: None or an Output; Some(the value the bare extract_description or parse_date_shift call returned)
    handled,      \* history: the events MainController::dispatch has passed to handler.handle_event, in call order
    records,      \* the rows CsvEventHandler.writer has serialized into records.csv, in order
    reply         \* the local result of MainController::dispatch: None, or Some(the text it is about to return)

vars == <<categories, firstAdded, added, phase, inp, tokens, classified, today, out,
          handled, records, reply>>

\* Option<T>: None is the empty sequence, Some(x) the sequence of x alone
None == <<>>
Some(x) == <<x>>
Unwrap(o) == o[1]

(***************************************************************************)
(* Characters and strings                                                  *)
(***************************************************************************)
ASCII ==
    <<"\t", " ", "!", ",", "-", ".",
      "0", "1", "2", "3", "4", "5", "6", "7", "8", "9", ":", ";", "?",
      "A", "B", "C", "D", "E", "F", "G", "H", "I", "J", "K", "L", "M",
      "N", "O", "P", "Q", "R", "S", "T", "U", "V", "W", "X", "Y", "Z",
      "a", "b", "c", "d", "e", "f", "g", "h", "i", "j", "k", "l", "m",
      "n", "o", "p", "q", "r", "s", "t", "u", "v", "w", "x", "y", "z">>

UPPERCASE == <<"A", "B", "C", "D", "E", "F", "G", "H", "I", "J", "K", "L", "M",
               "N", "O", "P", "Q", "R", "S", "T", "U", "V", "W", "X", "Y", "Z">>

LOWERCASE == <<"a", "b", "c", "d", "e", "f", "g", "h", "i", "j", "k", "l", "m",
               "n", "o", "p", "q", "r", "s", "t", "u", "v", "w", "x", "y", "z">>

CHARS == {ASCII[i] : i \in 1..Len(ASCII)}

\* the Cyrillic letters of the words the Russian resolver knows, each written
\* as the name of the letter: the small letters in code point order, and
\* the two capital letters the inputs use with their small letters
CYRILLIC ==
    <<"cyr_a", "cyr_be", "cyr_ve", "cyr_ghe", "cyr_de", "cyr_ie", "cyr_ze",
      "cyr_i", "cyr_short_i", "cyr_ka", "cyr_el", "cyr_en", "cyr_o",
      "cyr_pe", "cyr_er", "cyr_es", "cyr_te", "cyr_u", "cyr_tse",
      "cyr_che", "cyr_sha", "cyr_yeru", "cyr_soft_sign", "cyr_yu",
      "cyr_ya">>

CYRILLIC_CAPITALS == <<"CYR_VE", "CYR_PE">>

CYRILLIC_SMALL_OF == <<"cyr_ve", "cyr_pe">>

\* the position of a character in byte order
CodeOf == [c \in CHARS |-> CHOOSE i \in 1..Len(ASCII) : ASCII[i] = c]

Code(c) == CodeOf[c]

DIGITS == {"0", "1", "2", "3", "4", "5", "6", "7", "8", "9"}

WHITESPACE == {" ", "\t"}

\* char::to_lowercase on the characters of ASCII
LowerOf ==
    [c \in CHARS |->
        IF \E i \in 1..Len(UPPERCASE) : UPPERCASE[i] = c
        THEN LOWERCASE[CHOOSE i \in 1..Len(UPPERCASE) : UPPERCASE[i] = c]
        ELSE c]

\* char::to_lowercase
LowerChar(c) ==
    IF c \in CHARS THEN LowerOf[c]
    ELSE IF \E i \in 1..Len(CYRILLIC_CAPITALS) : CYRILLIC_CAPITALS[i] = c
    THEN CYRILLIC_SMALL_OF[CHOOSE i \in 1..Len(CYRILLIC_CAPITALS) : CYRILLIC_CAPITALS[i] = c]
    ELSE c

\* str::to_ascii_lowercase: only the ASCII letters change
to_ascii_lowercase(s) == [i \in 1..Len(s) |-> IF s[i] \in CHARS THEN LowerOf[s[i]] ELSE s[i]]

\* str::to_lowercase
to_lowercase(s) == [i \in 1..Len(s) |-> LowerChar(s[i])]

\* str::trim_end_matches(set): the longest prefix not ending with a character of the set
RECURSIVE trim_end_matches(_, _)
trim_end_matches(s, set) ==
    IF s # <<>> /\ s[Len(s)] \in set
    THEN trim_end_matches(SubSeq(s, 1, Len(s) - 1), set)
    ELSE s

RECURSIVE trim_start_matches(_, _)
trim_start_matches(s, set) ==
    IF s # <<>> /\ s[1] \in set
    THEN trim_start_matches(Tail(s), set)
    ELSE s

\* str::trim: leading and trailing whitespace removed
trim(s) == trim_end_matches(trim_start_matches(s, WHITESPACE), WHITESPACE)

\* a mutant of starts_with: the empty string is a prefix of nothing
starts_with_nonempty(s, prefix) ==
    prefix # <<>> /\ Len(prefix) <= Len(s) /\ SubSeq(s, 1, Len(prefix)) = prefix

\* str::starts_with
starts_with(s, prefix) ==
    Len(prefix) <= Len(s) /\ SubSeq(s, 1, Len(prefix)) = prefix

\* str::replace(from, to) for single characters
replace(s, from, to) == [i \in 1..Len(s) |-> IF s[i] = from THEN to ELSE s[i]]

\* str::split_whitespace: the maximal runs of non-whitespace, left to right
RECURSIVE SplitFrom(_, _, _)
SplitFrom(s, i, cur) ==
    IF i > Len(s)
    THEN IF cur = <<>> THEN <<>> ELSE <<cur>>
    ELSE IF s[i] \in WHITESPACE
         THEN (IF cur = <<>> THEN <<>> ELSE <<cur>>) \o SplitFrom(s, i + 1, <<>>)
         ELSE SplitFrom(s, i + 1, Append(cur, s[i]))

split_whitespace(s) == SplitFrom(s, 1, <<>>)

\* str::split(sep): the pieces between separators, empty ones included
RECURSIVE SplitCharFrom(_, _, _, _)
SplitCharFrom(s, sep, i, cur) ==
    IF i > Len(s)
    THEN <<cur>>
    ELSE IF s[i] = sep
         THEN <<cur>> \o SplitCharFrom(s, sep, i + 1, <<>>)
         ELSE SplitCharFrom(s, sep, i + 1, Append(cur, s[i]))

split(s, sep) == SplitCharFrom(s, sep, 1, <<>>)

\* String::cmp: byte-wise lexicographic order, as -1, 0, 1
RECURSIVE StrCmp(_, _)
StrCmp(a, b) ==
    IF a = <<>> /\ b = <<>> THEN 0
    ELSE IF a = <<>> THEN -1
    ELSE IF b = <<>> THEN 1
    ELSE IF Code(a[1]) < Code(b[1]) THEN -1
    ELSE IF Code(a[1]) > Code(b[1]) THEN 1
    ELSE StrCmp(Tail(a), Tail(b))

\* i32::cmp as -1, 0, 1
IntCmp(a, b) == IF a < b THEN -1 ELSE IF a > b THEN 1 ELSE 0

\* Ordering::then
Then(first, second) == IF first # 0 THEN first ELSE second

AllDigits(s) == \A i \in 1..Len(s) : s[i] \in DIGITS

(***************************************************************************)
(* events/mod.rs: Amount                                                   *)
(***************************************************************************)
\* a mutant of RE_AMOUNT_is_match: any number of fractional digits
RE_AMOUNT_is_match_any_fraction(s) ==
    LET body == IF s # <<>> /\ s[1] = "-" THEN Tail(s) ELSE s
    IN  \E n \in 1..Len(body) :
            /\ AllDigits(SubSeq(body, 1, n))
            /\ \/ n = Len(body)
               \/ /\ body[n + 1] \in {".", ","}
                  /\ Len(body) - (n + 1) >= 1
                  /\ AllDigits(SubSeq(body, n + 2, Len(body)))

\* RE_AMOUNT.is_match(s) for ^-?\d+(?:[.,]\d{1,2})?$
RE_AMOUNT_is_match(s) ==
    LET body == IF s # <<>> /\ s[1] = "-" THEN Tail(s) ELSE s
    IN  \E n \in 1..Len(body) :
            /\ AllDigits(SubSeq(body, 1, n))
            /\ \/ n = Len(body)
               \/ /\ body[n + 1] \in {".", ","}
                  /\ Len(body) - (n + 1) \in {1, 2}
                  /\ AllDigits(SubSeq(body, n + 2, Len(body)))

\* a mutant of Amount_from_str: the separator is kept as typed
Amount_from_str_keeps_comma(s) ==
    IF RE_AMOUNT_is_match(s) THEN [ok |-> TRUE, amount |-> s] ELSE [ok |-> FALSE]

\* impl FromStr for Amount: Ok(Amount(..)) or Err(())
Amount_from_str(s) ==
    IF RE_AMOUNT_is_match(s)
    THEN [ok |-> TRUE, amount |-> replace(s, ",", ".")]
    ELSE [ok |-> FALSE]

(***************************************************************************)
(* tokenizer.rs                                                            *)
(***************************************************************************)
TRAILING_SIGNS == {".", ",", ":", ";", "!", "?"}

Word(w) == [kind |-> "Word", text |-> w]
AmountToken(a) == [kind |-> "Amount", text |-> a]
TrailingSigns(t) == [kind |-> "TrailingSigns", text |-> t]

\* a mutant of TokenizeChunk: only one trailing sign is stripped
TokenizeChunkOneSign(original_word) ==
    LET word == IF original_word # <<>> /\ original_word[Len(original_word)] \in TRAILING_SIGNS
                THEN SubSeq(original_word, 1, Len(original_word) - 1)
                ELSE original_word
        parsed == Amount_from_str(word)
    IN  <<IF parsed.ok THEN AmountToken(parsed.amount) ELSE Word(word)>>
        \o (IF original_word # word
            THEN <<TrailingSigns(SubSeq(original_word, Len(word) + 1, Len(original_word)))>>
            ELSE <<>>)

\* a mutant of TokenizeChunk: the stripped signs are pushed before the word
TokenizeChunkSignsFirst(original_word) ==
    LET word == trim_end_matches(original_word, TRAILING_SIGNS)
        parsed == Amount_from_str(word)
    IN  (IF original_word # word
         THEN <<TrailingSigns(SubSeq(original_word, Len(word) + 1, Len(original_word)))>>
         ELSE <<>>)
        \o <<IF parsed.ok THEN AmountToken(parsed.amount) ELSE Word(word)>>

\* a mutant of TokenizeChunk: a TrailingSigns token is pushed for every chunk
TokenizeChunkAlwaysSigns(original_word) ==
    LET word == trim_end_matches(original_word, TRAILING_SIGNS)
        parsed == Amount_from_str(word)
    IN  <<IF parsed.ok THEN AmountToken(parsed.amount) ELSE Word(word),
          TrailingSigns(SubSeq(original_word, Len(word) + 1, Len(original_word)))>>

\* the body of the loop of tokenize: the tokens pushed for one chunk
TokenizeChunk(original_word) ==
    LET word == trim_end_matches(original_word, TRAILING_SIGNS)
        parsed == Amount_from_str(word)
    IN  <<IF parsed.ok THEN AmountToken(parsed.amount) ELSE Word(word)>>
        \o (IF original_word # word
            THEN <<TrailingSigns(SubSeq(original_word, Len(word) + 1, Len(original_word)))>>
            ELSE <<>>)

RECURSIVE TokenizeChunks(_)
TokenizeChunks(chunks) ==
    IF chunks = <<>> THEN <<>>
    ELSE TokenizeChunk(Head(chunks)) \o TokenizeChunks(Tail(chunks))

tokenize(text) == TokenizeChunks(split_whitespace(text))

(***************************************************************************)
(* categorizer/mod.rs                                                      *)
(***************************************************************************)
\* impl From<&str> for Lexeme
Lexeme_from(text) == to_lowercase(trim(text))

\* impl From<&str> for LexemeList
LexemeList_from(text) ==
    LET parts == split(text, ",")
    IN  [i \in 1..Len(parts) |-> Lexeme_from(parts[i])]

\* Category::new
Category_new(name, priority, lexemes) ==
    [name |-> name, priority |-> priority, lexemes |-> lexemes]

\* impl PartialEq for Category
Category_eq(self, other) == self.priority = other.priority /\ self.name = other.name

\* a mutant of Category_cmp: the names compared the natural way round
Category_cmp_name_ascending(self, other) ==
    Then(IntCmp(other.priority, self.priority), StrCmp(self.name, other.name))

\* a mutant of Category_cmp: the priorities compared the natural way round
Category_cmp_ascending(self, other) ==
    Then(IntCmp(self.priority, other.priority), StrCmp(other.name, self.name))

\* impl Ord for Category: -1 (Less), 0 (Equal), 1 (Greater)
Category_cmp(self, other) ==
    Then(IntCmp(other.priority, self.priority), StrCmp(other.name, self.name))

\* a mutant of match_word: the word is not lowercased
match_word_case_sensitive(self, word) ==
    LET w == trim(word)
    IN  \E i \in 1..Len(self.lexemes) : starts_with(w, self.lexemes[i])

\* Category::match_word
match_word(self, word) ==
    LET w == to_lowercase(trim(word))
    IN  \E i \in 1..Len(self.lexemes) : starts_with(w, self.lexemes[i])

\* a mutant of BTreeSet_insert: an equal element is replaced by the new one
BTreeSet_insert_replace(set, c) ==
    LET below == SelectSeq(set, LAMBDA e : Category_cmp(e, c) < 0)
        above == SelectSeq(set, LAMBDA e : Category_cmp(e, c) > 0)
    IN  below \o <<c>> \o above

\* BTreeSet::insert on the set kept as its ascending sequence: the set is
\* unchanged when it holds an element equal (by Ord) to the new one
BTreeSet_insert(set, c) ==
    IF \E i \in 1..Len(set) : Category_cmp(set[i], c) = 0
    THEN set
    ELSE LET below == SelectSeq(set, LAMBDA e : Category_cmp(e, c) < 0)
             above == SelectSeq(set, LAMBDA e : Category_cmp(e, c) > 0)
         IN  below \o <<c>> \o above

\* Categorizer::add_category: the new value of self.categories
add_category(cats, category) ==
    IF cats = None THEN Some(<<category>>) ELSE Some(BTreeSet_insert(Unwrap(cats), category))

\* a mutant of default_category: the last element of the set
default_category_last(cats) ==
    IF cats = None \/ Unwrap(cats) = <<>> THEN None ELSE Some(Unwrap(cats)[Len(Unwrap(cats))])

\* Categorizer::default_category: c.range(..).next()
default_category(cats) ==
    IF cats = None \/ Unwrap(cats) = <<>> THEN None ELSE Some(Unwrap(cats)[1])

\* the pushes of classify, in order: for each Word token, each matching
\* category of the set
RECURSIVE ClassifyPushes(_, _)
ClassifyPushes(cats, toks) ==
    IF toks = <<>> THEN <<>>
    ELSE (IF Head(toks).kind = "Word"
          THEN SelectSeq(cats, LAMBDA c : match_word(c, Head(toks).text))
          ELSE <<>>)
         \o ClassifyPushes(cats, Tail(toks))

\* a mutant of BinaryHeap_pop: the least element by Ord
BinaryHeap_pop_min(results) ==
    IF results = <<>> THEN None
    ELSE Some(results[CHOOSE i \in 1..Len(results) :
                          \A j \in 1..Len(results) : Category_cmp(results[i], results[j]) <= 0])

\* BinaryHeap::pop: the greatest element by Ord, None when the heap is empty
BinaryHeap_pop(results) ==
    IF results = <<>> THEN None
    ELSE Some(results[CHOOSE i \in 1..Len(results) :
                          \A j \in 1..Len(results) : Category_cmp(results[i], results[j]) >= 0])

\* a mutant of classify: the default category is not consulted
classify_no_default(cats, toks) ==
    BinaryHeap_pop(ClassifyPushes(Unwrap(cats), toks))

\* Categorizer::classify with categories loaded (Some): Some(category) or None
classify(cats, toks) ==
    LET popped == BinaryHeap_pop(ClassifyPushes(Unwrap(cats), toks))
    IN  IF popped # None THEN popped ELSE default_category(cats)

(***************************************************************************)
(* handler/mod.rs                                                          *)
(***************************************************************************)
\* a mutant of extract_amount: zero when there is no Amount token
extract_amount_or_zero(toks) ==
    LET idx == {i \in 1..Len(toks) : toks[i].kind = "Amount"}
    IN  IF idx = {} THEN Some(<<"0">>)
        ELSE Some(toks[CHOOSE i \in idx : \A j \in idx : i <= j].text)

\* a mutant of extract_amount: the last Amount token
extract_amount_last(toks) ==
    LET idx == {i \in 1..Len(toks) : toks[i].kind = "Amount"}
    IN  IF idx = {} THEN None
        ELSE Some(toks[CHOOSE i \in idx : \A j \in idx : j <= i].text)

\* RawMessageParser::extract_amount: find_map of the Amount tokens
extract_amount(toks) ==
    LET idx == {i \in 1..Len(toks) : toks[i].kind = "Amount"}
    IN  IF idx = {} THEN None
        ELSE Some(toks[CHOOSE i \in idx : \A j \in idx : i <= j].text)

\* a mutant of DescriptionFrom: signs are buffered before any word was added
RECURSIVE DescriptionFrom_keeps_signs(_, _, _, _)
DescriptionFrom_keeps_signs(toks, i, result, trailing_signs_buffer) ==
    IF i > Len(toks) THEN result
    ELSE LET t == toks[i]
         IN  IF t.kind = "TrailingSigns" /\ trailing_signs_buffer = None
             THEN DescriptionFrom_keeps_signs(toks, i + 1, result, Some(t.text))
             ELSE IF t.kind = "Word"
             THEN LET r1 == IF trailing_signs_buffer # None
                            THEN result \o Unwrap(trailing_signs_buffer) ELSE result
                      r2 == IF r1 # <<>> THEN Append(r1, " ") ELSE r1
                  IN  DescriptionFrom_keeps_signs(toks, i + 1, r2 \o t.text, None)
             ELSE DescriptionFrom_keeps_signs(toks, i + 1, result, trailing_signs_buffer)

\* a mutant of DescriptionFrom: the buffered signs are pushed at the end
RECURSIVE DescriptionFrom_flushes(_, _, _, _)
DescriptionFrom_flushes(toks, i, result, trailing_signs_buffer) ==
    IF i > Len(toks)
    THEN (IF trailing_signs_buffer # None
          THEN result \o Unwrap(trailing_signs_buffer) ELSE result)
    ELSE LET t == toks[i]
         IN  IF t.kind = "TrailingSigns" /\ result # <<>> /\ trailing_signs_buffer = None
             THEN DescriptionFrom_flushes(toks, i + 1, result, Some(t.text))
             ELSE IF t.kind = "Word"
             THEN LET r1 == IF trailing_signs_buffer # None
                            THEN result \o Unwrap(trailing_signs_buffer) ELSE result
                      r2 == IF r1 # <<>> THEN Append(r1, " ") ELSE r1
                  IN  DescriptionFrom_flushes(toks, i + 1, r2 \o t.text, None)
             ELSE DescriptionFrom_flushes(toks, i + 1, result, trailing_signs_buffer)

\* the loop of extract_description from token i on, with the two locals
RECURSIVE DescriptionFrom(_, _, _, _)
DescriptionFrom(toks, i, result, trailing_signs_buffer) ==
    IF i > Len(toks) THEN result
    ELSE LET t == toks[i]
         IN  IF t.kind = "TrailingSigns" /\ result # <<>> /\ trailing_signs_buffer = None
             THEN DescriptionFrom(toks, i + 1, result, Some(t.text))
             ELSE IF t.kind = "Word"
             THEN LET r1 == IF trailing_signs_buffer # None
                            THEN result \o Unwrap(trailing_signs_buffer) ELSE result
                      r2 == IF r1 # <<>> THEN Append(r1, " ") ELSE r1
                  IN  DescriptionFrom(toks, i + 1, r2 \o t.text, None)
             ELSE DescriptionFrom(toks, i + 1, result, trailing_signs_buffer)

\* RawMessageParser::extract_description
extract_description(toks) == DescriptionFrom(toks, 1, <<>>, None)

\* a mutant of build_reply_message: every event is reported as added
build_reply_message_always_added(event) ==
    [head |-> "Added new record #",
     id |-> event.record.id,
     date |-> event.record.date,
     category |-> event.record.category,
     amount |-> event.record.amount]

\* RawMessageParser::build_reply_message: the parts the format string joins
build_reply_message(event) ==
    [head |-> IF event.kind = "AddRecord" THEN "Added new record #" ELSE "Updated existed record #",
     id |-> event.record.id,
     date |-> event.record.date,
     category |-> event.record.category,
     amount |-> event.record.amount]

\* the date field of the record built by handle_message: Local::today().naive_local()
RecordDate(now) == now

\* RawMessageParser::handle_message after tokenize and classify have returned
\* toks and category: None or Some(Output)
handle_message(category, input, toks, now) ==
    LET amount == extract_amount(toks)
    IN  IF category = None THEN None
        ELSE IF amount = None THEN None
        ELSE LET record == [id |-> input.id,
                            date |-> RecordDate(now),
                            category |-> Unwrap(category).name,
                            amount |-> Unwrap(amount),
                            desc |-> extract_description(toks),
                            user |-> input.user]
                 event == [kind |-> IF input.is_new THEN "AddRecord" ELSE "UpdateRecord",
                           record |-> record]
             IN  Some([text |-> build_reply_message(event), events |-> <<event>>])

(***************************************************************************)
(* date_parser/mod.rs, date_parser/english.rs                              *)
(***************************************************************************)
\* a mutant of days_since: the operands are exchanged
days_since_reversed(self, another) == (7 + another - self) % 7

\* WeekdayExt::days_since on weekdays as their num_days_from_monday (0..6)
days_since(self, another) == (7 + self - another) % 7

\* chrono's Weekday::from_str: the short or the long English name, in any
\* letter case; entry k names the weekday with num_days_from_monday = k - 1
WEEKDAY_NAMES ==
    <<<<<<"m", "o", "n">>, <<"m", "o", "n", "d", "a", "y">>>>,
      <<<<"t", "u", "e">>, <<"t", "u", "e", "s", "d", "a", "y">>>>,
      <<<<"w", "e", "d">>, <<"w", "e", "d", "n", "e", "s", "d", "a", "y">>>>,
      <<<<"t", "h", "u">>, <<"t", "h", "u", "r", "s", "d", "a", "y">>>>,
      <<<<"f", "r", "i">>, <<"f", "r", "i", "d", "a", "y">>>>,
      <<<<"s", "a", "t">>, <<"s", "a", "t", "u", "r", "d", "a", "y">>>>,
      <<<<"s", "u", "n">>, <<"s", "u", "n", "d", "a", "y">>>>>>

Weekday_from_str(s) ==
    LET l == to_lowercase(s)
        hits == {k \in 1..7 : l = WEEKDAY_NAMES[k][1] \/ l = WEEKDAY_NAMES[k][2]}
    IN  IF hits = {} THEN None ELSE Some((CHOOSE k \in hits : TRUE) - 1)

\* str::eq_ignore_ascii_case
eq_ignore_ascii_case(a, b) == to_ascii_lowercase(a) = to_ascii_lowercase(b)

\* Token::is_word: a Word token holding the given word
is_word(t, w) == t.kind = "Word" /\ eq_ignore_ascii_case(t.text, w)

\* Token::any_of_words
any_of_words(t, ws) == \E w \in ws : is_word(t, w)

\* the value of a string of digits
RECURSIVE DigitsValue(_)
DigitsValue(s) ==
    IF s = <<>> THEN 0
    ELSE 10 * DigitsValue(SubSeq(s, 1, Len(s) - 1)) + (Code(s[Len(s)]) - Code("0"))

\* the digits of i32::MAX and of the magnitude of i32::MIN
I32_MAX_DIGITS == <<"2", "1", "4", "7", "4", "8", "3", "6", "4", "7">>
I32_MIN_DIGITS == <<"2", "1", "4", "7", "4", "8", "3", "6", "4", "8">>

\* whether a string of digits is a number of at most the given digits' value
DigitsAtMost(s, limit) ==
    LET t == trim_start_matches(s, {"0"})
    IN  Len(t) < Len(limit) \/ (Len(t) = Len(limit) /\ StrCmp(t, limit) <= 0)

\* Amount::as_i32: the amount parsed as an i32, or an error
as_i32(a) ==
    LET neg == a # <<>> /\ a[1] = "-"
        digits == IF neg THEN Tail(a) ELSE a
    IN  IF digits # <<>> /\ AllDigits(digits)
           /\ DigitsAtMost(digits, IF neg THEN I32_MIN_DIGITS ELSE I32_MAX_DIGITS)
        THEN [ok |-> TRUE,
              value |-> IF ~neg THEN DigitsValue(digits)
                        ELSE IF DigitsAtMost(digits, I32_MAX_DIGITS) THEN 0 - DigitsValue(digits)
                        ELSE (0 - 2147483647) - 1]
        ELSE [ok |-> FALSE]

W_yesterday == <<"y", "e", "s", "t", "e", "r", "d", "a", "y">>
W_last == <<"l", "a", "s", "t">>
W_on == <<"o", "n">>
W_ago == <<"a", "g", "o">>
W_days == <<"d", "a", "y", "s">>
W_weeks == <<"w", "e", "e", "k", "s">>
W_day == <<"d", "a", "y">>
W_week == <<"w", "e", "e", "k">>

\* a mutant of DurationAt: a number of weeks counts as that number of days
DurationAt_weeks_as_days(toks, i, now) ==
    LET t == toks[i]
    IN  IF t.kind = "Word" /\ is_word(t, W_yesterday)
        THEN Some(1)
        ELSE IF t.kind = "Word" /\ any_of_words(t, {W_last, W_on}) /\ Len(toks) > i
        THEN IF toks[i + 1].kind = "Word"
             THEN LET wd == Weekday_from_str(toks[i + 1].text)
                  IN  IF wd # None
                      THEN LET x == days_since(now % 7, Unwrap(wd))
                           IN  Some(IF x = 0 THEN 7 ELSE x)
                      ELSE None
             ELSE None
        ELSE IF t.kind = "Amount"
        THEN LET x == as_i32(t.text)
             IN  IF x.ok /\ Len(toks) > i + 1 /\ is_word(toks[i + 2], W_ago)
                 THEN IF is_word(toks[i + 1], W_days) THEN Some(x.value)
                      ELSE IF is_word(toks[i + 1], W_weeks) THEN Some(x.value)
                      ELSE None
                 ELSE None
        ELSE IF t.kind = "Word" /\ Len(toks) > i /\ is_word(toks[i + 1], W_ago)
        THEN IF eq_ignore_ascii_case(t.text, W_week) THEN Some(7)
             ELSE IF eq_ignore_ascii_case(t.text, W_day) THEN Some(1)
             ELSE None
        ELSE None

\* a mutant of DurationAt: a week ago is taken for a day ago
DurationAt_week_is_a_day(toks, i, now) ==
    LET t == toks[i]
    IN  IF t.kind = "Word" /\ is_word(t, W_yesterday)
        THEN Some(1)
        ELSE IF t.kind = "Word" /\ any_of_words(t, {W_last, W_on}) /\ Len(toks) > i
        THEN IF toks[i + 1].kind = "Word"
             THEN LET wd == Weekday_from_str(toks[i + 1].text)
                  IN  IF wd # None
                      THEN LET x == days_since(now % 7, Unwrap(wd))
                           IN  Some(IF x = 0 THEN 7 ELSE x)
                      ELSE None
             ELSE None
        ELSE IF t.kind = "Amount"
        THEN LET x == as_i32(t.text)
             IN  IF x.ok /\ Len(toks) > i + 1 /\ is_word(toks[i + 2], W_ago)
                 THEN IF is_word(toks[i + 1], W_days) THEN Some(x.value)
                      ELSE IF is_word(toks[i + 1], W_weeks) THEN Some(7 * x.value)
                      ELSE None
                 ELSE None
        ELSE IF t.kind = "Word" /\ Len(toks) > i /\ is_word(toks[i + 1], W_ago)
        THEN IF eq_ignore_ascii_case(t.text, W_week) THEN Some(1)
             ELSE IF eq_ignore_ascii_case(t.text, W_day) THEN Some(1)
             ELSE None
        ELSE None

\* a mutant of DurationAt: the number is honoured with the singular units too
DurationAt_singular_units(toks, i, now) ==
    LET t == toks[i]
    IN  IF t.kind = "Word" /\ is_word(t, W_yesterday)
        THEN Some(1)
        ELSE IF t.kind = "Word" /\ any_of_words(t, {W_last, W_on}) /\ Len(toks) > i
        THEN IF toks[i + 1].kind = "Word"
             THEN LET wd == Weekday_from_str(toks[i + 1].text)
                  IN  IF wd # None
                      THEN LET x == days_since(now % 7, Unwrap(wd))
                           IN  Some(IF x = 0 THEN 7 ELSE x)
                      ELSE None
             ELSE None
        ELSE IF t.kind = "Amount"
        THEN LET x == as_i32(t.text)
             IN  IF x.ok /\ Len(toks) > i + 1 /\ is_word(toks[i + 2], W_ago)
                 THEN IF any_of_words(toks[i + 1], {W_days, W_day}) THEN Some(x.value)
                      ELSE IF any_of_words(toks[i + 1], {W_weeks, W_week}) THEN Some(7 * x.value)
                      ELSE None
                 ELSE None
        ELSE IF t.kind = "Word" /\ Len(toks) > i /\ is_word(toks[i + 1], W_ago)
        THEN IF eq_ignore_ascii_case(t.text, W_week) THEN Some(7)
             ELSE IF eq_ignore_ascii_case(t.text, W_day) THEN Some(1)
             ELSE None
        ELSE None

\* the value of `duration` in the loop of parse_date_shift at token i
\* (1-based), with `now` the day Local::today() returns: None or Some(days)
DurationAt(toks, i, now) ==
    LET t == toks[i]
    IN  IF t.kind = "Word" /\ is_word(t, W_yesterday)
        THEN Some(1)
        ELSE IF t.kind = "Word" /\ any_of_words(t, {W_last, W_on}) /\ Len(toks) > i
        THEN IF toks[i + 1].kind = "Word"
             THEN LET wd == Weekday_from_str(toks[i + 1].text)
                  IN  IF wd # None
                      THEN LET x == days_since(now % 7, Unwrap(wd))
                           IN  Some(IF x = 0 THEN 7 ELSE x)
                      ELSE None
             ELSE None
        ELSE IF t.kind = "Amount"
        THEN LET x == as_i32(t.text)
             IN  IF x.ok /\ Len(toks) > i + 1 /\ is_word(toks[i + 2], W_ago)
                 THEN IF is_word(toks[i + 1], W_days) THEN Some(x.value)
                      ELSE IF is_word(toks[i + 1], W_weeks) THEN Some(7 * x.value)
                      ELSE None
                 ELSE None
        ELSE IF t.kind = "Word" /\ Len(toks) > i /\ is_word(toks[i + 1], W_ago)
        THEN IF eq_ignore_ascii_case(t.text, W_week) THEN Some(7)
             ELSE IF eq_ignore_ascii_case(t.text, W_day) THEN Some(1)
             ELSE None
        ELSE None

\* a mutant of DateShiftFrom: the last pattern of the message wins
RECURSIVE DateShiftFrom_last(_, _, _)
DateShiftFrom_last(toks, i, now) ==
    IF i > Len(toks) THEN None
    ELSE IF DateShiftFrom_last(toks, i + 1, now) # None THEN DateShiftFrom_last(toks, i + 1, now)
    ELSE DurationAt(toks, i, now)

RECURSIVE DateShiftFrom(_, _, _)
DateShiftFrom(toks, i, now) ==
    IF i > Len(toks) THEN None
    ELSE IF DurationAt(toks, i, now) # None THEN DurationAt(toks, i, now)
    ELSE DateShiftFrom(toks, i + 1, now)

\* EnglishDateShiftParser::parse_date_shift: None or Some(Duration) in days
parse_date_shift(toks, now) == DateShiftFrom(toks, 1, now)

(***************************************************************************)
(* date_parser/russian.rs, date_parser/russian/weekdayrus.rs               *)
(***************************************************************************)
\* the word vchera
R_vchera ==
    <<"cyr_ve", "cyr_che", "cyr_ie", "cyr_er", "cyr_a">>
\* the word pozavchera
R_pozavchera ==
    <<"cyr_pe", "cyr_o", "cyr_ze", "cyr_a", "cyr_ve", "cyr_che", "cyr_ie",
      "cyr_er", "cyr_a">>
\* the word proshlyi
R_proshlyi ==
    <<"cyr_pe", "cyr_er", "cyr_o", "cyr_sha", "cyr_el", "cyr_yeru",
      "cyr_short_i">>
\* the word proshluyu
R_proshluyu ==
    <<"cyr_pe", "cyr_er", "cyr_o", "cyr_sha", "cyr_el", "cyr_u", "cyr_yu">>
\* the word proshloe
R_proshloe ==
    <<"cyr_pe", "cyr_er", "cyr_o", "cyr_sha", "cyr_el", "cyr_o", "cyr_ie">>
\* the word v
R_v ==
    <<"cyr_ve">>
\* the word nazad
R_nazad ==
    <<"cyr_en", "cyr_a", "cyr_ze", "cyr_a", "cyr_de">>
\* the word nedelyu
R_nedelyu ==
    <<"cyr_en", "cyr_ie", "cyr_de", "cyr_ie", "cyr_el", "cyr_yu">>
\* the word nedeli
R_nedeli ==
    <<"cyr_en", "cyr_ie", "cyr_de", "cyr_ie", "cyr_el", "cyr_i">>
\* the word nedel'
R_nedel ==
    <<"cyr_en", "cyr_ie", "cyr_de", "cyr_ie", "cyr_el", "cyr_soft_sign">>
\* the word den'
R_den ==
    <<"cyr_de", "cyr_ie", "cyr_en", "cyr_soft_sign">>
\* the word dnei
R_dnei ==
    <<"cyr_de", "cyr_en", "cyr_ie", "cyr_short_i">>
\* the word dnya
R_dnya ==
    <<"cyr_de", "cyr_en", "cyr_ya">>

\* the names WeekdayRus::from_str knows; entry k holds those of the weekday
\* with num_days_from_monday = k - 1
WEEKDAY_NAMES_RUS ==
    <<{<<"cyr_pe", "cyr_en">>,
       <<"cyr_pe", "cyr_o", "cyr_en", "cyr_ie", "cyr_de", "cyr_ie", "cyr_el",
         "cyr_soft_sign", "cyr_en", "cyr_i", "cyr_ka">>},
      {<<"cyr_ve", "cyr_te">>,
       <<"cyr_ve", "cyr_te", "cyr_o", "cyr_er", "cyr_en", "cyr_i", "cyr_ka">>},
      {<<"cyr_es", "cyr_er">>,
       <<"cyr_es", "cyr_er", "cyr_ie", "cyr_de", "cyr_a">>,
       <<"cyr_es", "cyr_er", "cyr_ie", "cyr_de", "cyr_u">>},
      {<<"cyr_che", "cyr_te">>,
       <<"cyr_che", "cyr_ie", "cyr_te", "cyr_ve", "cyr_ie", "cyr_er",
         "cyr_ghe">>},
      {<<"cyr_pe", "cyr_te">>,
       <<"cyr_pe", "cyr_ya", "cyr_te", "cyr_en", "cyr_i", "cyr_tse", "cyr_a">>,
       <<"cyr_pe", "cyr_ya", "cyr_te", "cyr_en", "cyr_i", "cyr_tse", "cyr_u">>},
      {<<"cyr_es", "cyr_be">>,
       <<"cyr_es", "cyr_u", "cyr_be", "cyr_be", "cyr_o", "cyr_te", "cyr_a">>,
       <<"cyr_es", "cyr_u", "cyr_be", "cyr_be", "cyr_o", "cyr_te", "cyr_u">>},
      {<<"cyr_ve", "cyr_es">>,
       <<"cyr_ve", "cyr_o", "cyr_es", "cyr_ka", "cyr_er", "cyr_ie", "cyr_es",
         "cyr_ie", "cyr_en", "cyr_soft_sign", "cyr_ie">>}>>

\* impl FromStr for WeekdayRus: None for Err(())
WeekdayRus_from_str(s) ==
    LET l == to_lowercase(s)
        hits == {k \in 1..7 : l \in WEEKDAY_NAMES_RUS[k]}
    IN  IF hits = {} THEN None ELSE Some((CHOOSE k \in hits : TRUE) - 1)

\* the value of `duration` in the loop of RussianDateShiftParser's
\* parse_date_shift at token i (1-based), with `now` the day
\* Local::today() returns: None or Some(days)
RussianDurationAt(toks, i, now) ==
    LET t == toks[i]
    IN  IF t.kind = "Word" /\ is_word(t, R_vchera)
        THEN Some(1)
        ELSE IF t.kind = "Word" /\ is_word(t, R_pozavchera)
        THEN Some(2)
        ELSE IF t.kind = "Word" /\ Len(toks) > i
                /\ any_of_words(t, {R_proshlyi, R_proshluyu, R_proshloe, R_v})
        THEN IF toks[i + 1].kind = "Word"
             THEN LET wd == WeekdayRus_from_str(toks[i + 1].text)
                  IN  IF wd # None
                      THEN LET x == days_since(now % 7, Unwrap(wd))
                           IN  Some(IF x = 0 THEN 7 ELSE x)
                      ELSE None
             ELSE None
        ELSE IF t.kind = "Amount"
        THEN LET x == as_i32(t.text)
             IN  IF x.ok /\ Len(toks) > i + 1 /\ is_word(toks[i + 2], R_nazad)
                 THEN IF any_of_words(toks[i + 1], {R_nedelyu, R_nedeli, R_nedel})
                      THEN Some(7 * x.value)
                      ELSE IF any_of_words(toks[i + 1], {R_den, R_dnei, R_dnya})
                      THEN Some(x.value)
                      ELSE None
                 ELSE None
        ELSE IF t.kind = "Word" /\ Len(toks) > i /\ is_word(toks[i + 1], R_nazad)
        THEN IF eq_ignore_ascii_case(t.text, R_nedelyu) THEN Some(7)
             ELSE IF eq_ignore_ascii_case(t.text, R_den) THEN Some(1)
             ELSE None
        ELSE None

RECURSIVE RussianDateShiftFrom(_, _, _)
RussianDateShiftFrom(toks, i, now) ==
    IF i > Len(toks) THEN None
    ELSE IF RussianDurationAt(toks, i, now) # None THEN RussianDurationAt(toks, i, now)
    ELSE RussianDateShiftFrom(toks, i + 1, now)

\* RussianDateShiftParser::parse_date_shift: None or Some(Duration) in days
RussianDateShiftParser_parse_date_shift(toks, now) == RussianDateShiftFrom(toks, 1, now)

(***************************************************************************)
(* The program: a Categorizer is created and loaded, then messages are     *)
(* received and handled one at a time                                      *)
(***************************************************************************)
\* the rows a CategoryProvider may supply: name, priority, lexemes as typed
ProviderRows ==
    {Category_new(<<"S">>, 10, LexemeList_from(<<"A", "b">>)),
     Category_new(<<"F">>, 10, LexemeList_from(<<"a">>)),
     Category_new(<<"T">>, 20, LexemeList_from(<<"a", ",", " ", "b">>)),
     Category_new(<<"O">>, 99, LexemeList_from(<<"a", "b", "c", ",", "o">>)),
     Category_new(<<"S">>, 10, LexemeList_from(<<"b">>)),
     Category_new(<<"M">>, 10, LexemeList_from(<<>>))}

\* the whitespace-delimited chunks messages are made of
Chunks ==
    {<<"a", "b">>, <<"B", ",">>,
     <<"1">>, <<"2", ",", "5", ".">>, W_yesterday}

MaxWords == 2

MaxDay == 1

RECURSIVE JoinWithSpace(_)
JoinWithSpace(chunks) ==
    IF chunks = <<>> THEN <<>>
    ELSE IF Len(chunks) = 1 THEN chunks[1]
    ELSE chunks[1] \o <<" ">> \o JoinWithSpace(Tail(chunks))

RECURSIVE SeqsUpTo(_, _)
SeqsUpTo(S, n) ==
    IF n = 0 THEN {<<>>}
    ELSE LET shorter == SeqsUpTo(S, n - 1)
         IN  shorter \cup {Append(q, x) : q \in {r \in shorter : Len(r) = n - 1}, x \in S}

Texts == {JoinWithSpace(q) : q \in SeqsUpTo(Chunks, MaxWords)}

Inputs ==
    {[id |-> m.id, user |-> "user", text |-> t, is_new |-> m.is_new] :
        t \in Texts, m \in {[id |-> 1, is_new |-> TRUE], [id |-> 2, is_new |-> FALSE]}}

Init ==
    /\ categories = None
    /\ handled = <<>>
    /\ records = <<>>
    /\ reply = None
    /\ firstAdded = None
    /\ added = None
    /\ phase = "loading"
    /\ inp = None
    /\ tokens = None
    /\ classified = None
    /\ today = 0
    /\ out = None

\* Categorizer::add_category, called by load_categories for each row and by the tests
AddCategory(c) ==
    /\ phase = "loading"
    /\ categories' = add_category(categories, c)
    /\ firstAdded' = IF firstAdded = None THEN Some(c) ELSE firstAdded
    /\ added' = Some([category |-> c, before |-> categories,
                      inserted |-> add_category(categories, c) # categories])
    /\ UNCHANGED <<phase, inp, tokens, classified, today, out, handled, records, reply>>

\* RawMessageParser::new returns: the provider's rows are all added
Loaded ==
    /\ phase = "loading"
    /\ phase' = "idle"
    /\ added' = None
    /\ UNCHANGED <<categories, firstAdded, inp, tokens, classified, today, out, handled, records, reply>>

\* a Command::RecordMessage(input) arrives
Receive(input) ==
    /\ phase = "idle"
    /\ phase' = "received"
    /\ inp' = Some(input)
    /\ UNCHANGED <<categories, firstAdded, added, tokens, classified, today, out, handled, records, reply>>

\* a mutant of HandleMessage: without categories the call returns nothing
HandleMessage_silent(now) ==
    /\ phase = "received"
    /\ today' = now
    /\ tokens' = Some(tokenize(Unwrap(inp).text))
    /\ phase' = "replied"
    /\ classified' = IF categories = None THEN None
                     ELSE Some(classify(categories, Unwrap(tokens')))
    /\ out' = IF categories = None THEN None
              ELSE handle_message(Unwrap(classified'), Unwrap(inp), Unwrap(tokens'), now)
    /\ UNCHANGED <<categories, firstAdded, added, inp, handled, records, reply>>

\* a mutant of HandleMessage: classify takes its answer out of the set
HandleMessage_forgetting(now) ==
    /\ phase = "received"
    /\ today' = now
    /\ LET toks == tokenize(Unwrap(inp).text)
           category == classify(categories, toks)
       IN  /\ tokens' = Some(toks)
           /\ IF categories = None
              THEN /\ phase' = "panicked"
                   /\ classified' = None
                   /\ out' = None
                   /\ categories' = categories
              ELSE /\ phase' = "replied"
                   /\ classified' = Some(category)
                   /\ out' = handle_message(category, Unwrap(inp), toks, now)
                   /\ categories' = IF category = None THEN categories
                                    ELSE Some(SelectSeq(Unwrap(categories),
                                                        LAMBDA c : c # Unwrap(category)))
    /\ UNCHANGED <<firstAdded, added, inp, handled, records, reply>>

\* a mutant of HandleMessage: the amount is extracted before classify is called
HandleMessage_amount_first(now) ==
    /\ phase = "received"
    /\ today' = now
    /\ LET toks == tokenize(Unwrap(inp).text)
           category == classify(categories, toks)
       IN  /\ tokens' = Some(toks)
           /\ IF extract_amount(toks) = None
              THEN /\ phase' = "replied"
                   /\ classified' = None
                   /\ out' = None
              ELSE IF categories = None
              THEN /\ phase' = "panicked"
                   /\ classified' = None
                   /\ out' = None
              ELSE /\ phase' = "replied"
                   /\ classified' = Some(category)
                   /\ out' = handle_message(category, Unwrap(inp), toks, now)
    /\ UNCHANGED <<categories, firstAdded, added, inp, handled, records, reply>>

\* RawMessageParser::handle_message(input); classify panics on categories = None
HandleMessage(now) ==
    /\ phase = "received"
    /\ today' = now
    /\ LET toks == tokenize(Unwrap(inp).text)
           category == classify(categories, toks)
       IN  /\ tokens' = Some(toks)
           /\ IF categories = None
              THEN /\ phase' = "panicked"
                   /\ classified' = None
                   /\ out' = None
              ELSE /\ phase' = "replied"
                   /\ classified' = Some(category)
                   /\ out' = handle_message(category, Unwrap(inp), toks, now)
    /\ UNCHANGED <<categories, firstAdded, added, inp, handled, records, reply>>

\* the reply is delivered and the next command awaited
Done ==
    /\ phase = "replied"
    /\ phase' = "idle"
    /\ inp' = None
    /\ tokens' = None
    /\ classified' = None
    /\ today' = 0
    /\ out' = None
    /\ UNCHANGED <<categories, firstAdded, added, handled, records, reply>>

Next ==
    \/ \E c \in ProviderRows : AddCategory(c)
    \/ Loaded
    \/ \E input \in Inputs : Receive(input)
    \/ \E now \in 0..MaxDay : HandleMessage(now)
    \/ Done

Spec == Init /\ [][Next]_vars

(***************************************************************************)
(* A bare call of tokenize on every text of at most MaxTextLen characters  *)
(* and on every message of at most MaxDescWords chunks, followed by a bare *)
(* call of extract_description on the tokens                               *)
(***************************************************************************)
MaxTextLen == 5

TextChars == {"A", "1", ".", ",", "-", " "}

RECURSIVE StringsUpTo(_, _)
StringsUpTo(chars, n) ==
    IF n = 0 THEN {<<>>}
    ELSE LET shorter == StringsUpTo(chars, n - 1)
         IN  shorter \cup {Append(s, c) : s \in {t \in shorter : Len(t) = n - 1}, c \in chars}

MaxDescWords == 4

\* chunks of longer messages: words and amounts with and without signs
DescChunks == {<<"A">>, <<"B", ",">>, <<"1">>, <<"2", ".">>, <<"!">>}

DescTexts == {JoinWithSpace(q) : q \in SeqsUpTo(DescChunks, MaxDescWords)}

InitTok ==
    /\ categories = None
    /\ handled = <<>>
    /\ records = <<>>
    /\ reply = None
    /\ firstAdded = None
    /\ added = None
    /\ phase = "text"
    /\ inp \in {Some([text |-> t]) : t \in StringsUpTo(TextChars, MaxTextLen) \cup DescTexts}
    /\ tokens = None
    /\ classified = None
    /\ today = 0
    /\ out = None

Tokenize ==
    /\ phase = "text"
    /\ tokens' = Some(tokenize(Unwrap(inp).text))
    /\ phase' = "tokens"
    /\ UNCHANGED <<categories, firstAdded, added, inp, classified, today, out, handled, records, reply>>

\* RawMessageParser::extract_description(&tokens), as the tests call it
Describe ==
    /\ phase = "tokens"
    /\ out' = Some(extract_description(Unwrap(tokens)))
    /\ phase' = "described"
    /\ UNCHANGED <<categories, firstAdded, added, inp, tokens, classified, today, handled, records, reply>>

NextTok == Tokenize \/ Describe

SpecTok == InitTok /\ [][NextTok]_vars

(***************************************************************************)
(* A bare call of a resolver's parse_date_shift on the tokens of a message *)
(* of at most MaxDateWords words, of two phrases, or of a weekday keyword  *)
(* and a weekday on every day of the week                                  *)
(***************************************************************************)
MaxDateWords == 3

\* the values of num_days_from_monday
Weekdays == 0..6

\* the words the messages handed to a resolver are made of
DateChunks(parser) ==
    IF parser = "english"
    THEN {W_yesterday, <<"2">>, <<"4", ".", "5">>, W_days, W_weeks, W_day, W_week, W_ago, <<"a">>}
    ELSE {R_vchera, <<"2">>, <<"4", ".", "5">>, R_den, R_dnei, R_dnya,
          R_nedelyu, R_nedeli, R_nedel, R_nazad}

WeekdayKeywords(parser) ==
    IF parser = "english" THEN {W_last, W_on}
    ELSE {R_proshlyi, R_proshluyu, R_proshloe, R_v}

\* every weekday name the resolver knows, and names with a capital letter
WeekdayWords(parser) ==
    IF parser = "english"
    THEN {WEEKDAY_NAMES[k][j] : k \in 1..7, j \in 1..2} \cup {<<"M", "o", "n">>}
    ELSE UNION {WEEKDAY_NAMES_RUS[k] : k \in 1..7}
         \cup {<<"CYR_PE", "cyr_en">>, <<"CYR_VE", "cyr_te">>}

\* a weekday keyword and a weekday, alone or with "yesterday" before or after
WeekdayTexts(parser) ==
    LET yesterday == IF parser = "english" THEN W_yesterday ELSE R_vchera
    IN  {JoinWithSpace(before \o <<k, w>> \o after) :
            k \in WeekdayKeywords(parser), w \in WeekdayWords(parser),
            before \in {<<>>, <<yesterday>>}, after \in {<<>>, <<yesterday>>}}

\* the patterns of the resolver and what a message may hold around them
DatePhrases(parser) ==
    IF parser = "english"
    THEN {<<W_yesterday>>, <<<<"2">>, W_days, W_ago>>, <<<<"2">>, W_weeks, W_ago>>,
          <<<<"2">>, W_week, W_ago>>, <<<<"4", ".", "5">>, W_days, W_ago>>,
          <<W_week, W_ago>>, <<W_day, W_ago>>, <<<<"2">>>>, <<<<"2", ",">>>>, <<<<"a">>>>}
    ELSE {<<R_vchera>>, <<R_pozavchera>>, <<<<"2">>, R_dnya, R_nazad>>,
          <<<<"2">>, R_nedeli, R_nazad>>, <<<<"4", ".", "5">>, R_dnei, R_nazad>>,
          <<R_nedelyu, R_nazad>>, <<R_den, R_nazad>>, <<<<"2">>>>, <<<<"2", ",">>>>}

DateTexts(parser) ==
    {JoinWithSpace(q) : q \in SeqsUpTo(DateChunks(parser), MaxDateWords)}
    \cup {JoinWithSpace(p \o q) : p, q \in DatePhrases(parser)}

\* the text and the resolver it is handed to
DateInputs(parser) == {Some([text |-> t, parser |-> parser]) : t \in DateTexts(parser)}

WeekdayInputs(parser) == {Some([text |-> t, parser |-> parser]) : t \in WeekdayTexts(parser)}

InitDate ==
    /\ categories = None
    /\ handled = <<>>
    /\ records = <<>>
    /\ reply = None
    /\ firstAdded = None
    /\ added = None
    /\ phase = "message"
    /\ tokens = None
    /\ classified = None
    \* only the weekday arm reads the clock
    /\ \/ /\ inp \in DateInputs("english") \cup DateInputs("russian")
          /\ today = 0
       \/ /\ inp \in WeekdayInputs("english") \cup WeekdayInputs("russian")
          /\ today \in Weekdays
    /\ out = None

\* EnglishDateShiftParser::parse_date_shift(&tokenize(text)), as the tests call it
ParseDateShiftEnglish ==
    /\ phase = "message"
    /\ Unwrap(inp).parser = "english"
    /\ tokens' = Some(tokenize(Unwrap(inp).text))
    /\ out' = Some(parse_date_shift(Unwrap(tokens'), today))
    /\ phase' = "resolved"
    /\ UNCHANGED <<categories, firstAdded, added, inp, classified, today, handled, records, reply>>

\* RussianDateShiftParser::parse_date_shift(&tokenize(text)), as the tests call it
ParseDateShiftRussian ==
    /\ phase = "message"
    /\ Unwrap(inp).parser = "russian"
    /\ tokens' = Some(tokenize(Unwrap(inp).text))
    /\ out' = Some(RussianDateShiftParser_parse_date_shift(Unwrap(tokens'), today))
    /\ phase' = "resolved"
    /\ UNCHANGED <<categories, firstAdded, added, inp, classified, today, handled, records, reply>>

NextDate == ParseDateShiftEnglish \/ ParseDateShiftRussian

SpecDate == InitDate /\ [][NextDate]_vars

(***************************************************************************)
(* events/google_docs.rs: a bare call of last_sheet_ids                    *)
(***************************************************************************)
\* a mutant of PreviousSheetId: January is not followed by December
PreviousSheetId_no_rollover(id) == id - 1

\* the closure of last_sheet_ids: the id pushed after id
PreviousSheetId(id) == IF (id - 1) % 100 = 0 THEN id - 89 ELSE id - 1

\* the fold of last_sheet_ids after the given number of steps are left
RECURSIVE SheetIdsFold(_, _)
SheetIdsFold(v, steps) ==
    IF steps = 0 THEN v
    ELSE SheetIdsFold(Append(v, PreviousSheetId(v[Len(v)])), steps - 1)

\* last_sheet_ids(id, count) for count >= 1
last_sheet_ids(id, count) == SheetIdsFold(<<id>>, count - 1)

MaxCount == 14

\* the years of the sheet ids handed to last_sheet_ids
SheetYears == {2019, 2020, 2021}

SheetIds == {y * 100 + m : y \in SheetYears, m \in 1..12}

InitSheet ==
    /\ categories = None
    /\ handled = <<>>
    /\ records = <<>>
    /\ reply = None
    /\ firstAdded = None
    /\ added = None
    /\ phase = "sheet"
    /\ inp \in {Some([id |-> id, count |-> count]) : id \in SheetIds, count \in 1..MaxCount}
    /\ tokens = None
    /\ classified = None
    /\ today = 0
    /\ out = None

\* last_sheet_ids(id, count), as handle_event and the test call it
LastSheetIds ==
    /\ phase = "sheet"
    /\ out' = Some(last_sheet_ids(Unwrap(inp).id, Unwrap(inp).count))
    /\ phase' = "listed"
    /\ UNCHANGED <<categories, firstAdded, added, inp, tokens, classified, today, handled, records, reply>>

NextSheet == LastSheetIds

SpecSheet == InitSheet /\ [][NextSheet]_vars

(***************************************************************************)
(* A bare call of MainController::dispatch on every parser output of at    *)
(* most MaxEvents events, with the CSV event handler                       *)
(***************************************************************************)
\* Result<(), String>
Ok == [is_err |-> FALSE, err |-> ""]
Err(e) == [is_err |-> TRUE, err |-> e]

\* CsvEventHandler::handle_event(event) with the rows `written` in
\* records.csv; saved tells whether writer.serialize(record) succeeded
CsvEventHandler_handle_event(written, event, saved) ==
    IF event.kind = "AddRecord"
    THEN IF saved
         THEN [result |-> Ok, records |-> Append(written, event.record)]
         ELSE [result |-> Err("Error during save record"), records |-> written]
    ELSE [result |-> Err("Update record is not implemented yet"), records |-> written]

\* a mutant of DispatchEvents: the loop ends at the first failing call
RECURSIVE DispatchEvents_until_error(_, _, _, _)
DispatchEvents_until_error(events, i, st, saved) ==
    IF i > Len(events) THEN st
    ELSE LET call == CsvEventHandler_handle_event(st.records, events[i], saved[i])
             next == [result |-> IF call.result.is_err THEN Some(call.result.err)
                                 ELSE st.result,
                      handled |-> Append(st.handled, [event |-> events[i],
                                                      result |-> call.result]),
                      records |-> call.records]
         IN  IF call.result.is_err THEN next
             ELSE DispatchEvents_until_error(events, i + 1, next, saved)

\* the for loop of dispatch from the event at i on: st holds the local
\* result, the calls of handle_event made so far and the rows written
RECURSIVE DispatchEvents(_, _, _, _)
DispatchEvents(events, i, st, saved) ==
    IF i > Len(events) THEN st
    ELSE LET call == CsvEventHandler_handle_event(st.records, events[i], saved[i])
             next == [result |-> IF call.result.is_err THEN Some(call.result.err)
                                 ELSE st.result,
                      handled |-> Append(st.handled, [event |-> events[i],
                                                      result |-> call.result]),
                      records |-> call.records]
         IN  DispatchEvents(events, i + 1, next, saved)

\* MainController::dispatch(Command::RecordMessage(input)) once
\* parser.handle_message(input) has returned output
dispatch(output, written, saved) ==
    IF output = None
    THEN [result |-> None, handled |-> <<>>, records |-> written]
    ELSE DispatchEvents(Unwrap(output).events, 1,
                        [result |-> Some(Unwrap(output).text),
                         handled |-> <<>>,
                         records |-> written],
                        saved)

MaxEvents == 3

\* the records of the events
DispatchRecords ==
    {[id |-> id, date |-> 0, category |-> <<"F">>, amount |-> <<"1">>,
      desc |-> <<"a">>, user |-> "user"] : id \in 1..2}

DispatchEventSet ==
    {[kind |-> k, record |-> r] : k \in {"AddRecord", "UpdateRecord"}, r \in DispatchRecords}

\* the confirmation texts of the outputs
DispatchTexts == {"Added new record #1", "Updated existed record #1"}

\* what parser.handle_message can hand to dispatch: nothing, or an Output
DispatchOutputs ==
    {None} \cup
    {Some([text |-> t, events |-> e]) :
        t \in DispatchTexts, e \in SeqsUpTo(DispatchEventSet, MaxEvents)}

InitDispatch ==
    /\ categories = None
    /\ handled = <<>>
    /\ records = <<>>
    /\ reply = None
    /\ firstAdded = None
    /\ added = None
    /\ phase = "command"
    /\ inp = None
    /\ tokens = None
    /\ classified = None
    /\ today = 0
    /\ out \in DispatchOutputs

\* MainController::dispatch: saved[i] tells whether the writer can
\* serialize at the i-th call of handle_event
Dispatch(saved) ==
    /\ phase = "command"
    /\ LET done == dispatch(out, records, saved)
       IN  /\ reply' = done.result
           /\ handled' = done.handled
           /\ records' = done.records
    /\ phase' = "dispatched"
    /\ UNCHANGED <<categories, firstAdded, added, inp, tokens, classified, today, out>>

NextDispatch == \E saved \in [1..MaxEvents -> BOOLEAN] : Dispatch(saved)

SpecDispatch == InitDispatch /\ [][NextDispatch]_vars

(***************************************************************************)
(* The claims                                                              *)
(***************************************************************************)
\* a message has been handled by a parser whose categories are loaded
Handled == phase = "replied"

Toks == Unwrap(tokens)

CategorySet == {Unwrap(categories)[i] : i \in 1..Len(Unwrap(categories))}

WordTexts == {Toks[i].text : i \in {j \in 1..Len(Toks) : Toks[j].kind = "Word"}}

AmountIndexes == {i \in 1..Len(Toks) : Toks[i].kind = "Amount"}

\* the categories of the set that match at least one Word token of the message
Matching == {c \in CategorySet : \E w \in WordTexts : match_word(c, w)}

\* the category classify returned
Classified == Unwrap(Unwrap(classified))

ReturnedCategory == classified # None /\ Unwrap(classified) # None

\* C1: when at least one Word matches at least one category, classify
\* returns a matching category whose priority value is the smallest among
\* all matching categories.
C1_PrioritySelection ==
    (Handled /\ Matching # {}) =>
        /\ ReturnedCategory
        /\ Classified \in Matching
        /\ \A m \in Matching : Classified.priority <= m.priority

C1_Witness ==
    /\ Handled
    /\ ReturnedCategory
    /\ Classified.name = <<"S">>
    /\ \E m \in Matching : m.priority > Classified.priority
    /\ \E m \in CategorySet \ Matching : m.priority > Classified.priority

\* C2 as stated: when no Word matches any category, classify returns the
\* category that was added first, whatever its priority value.
C2_FallbackIsFirstAdded ==
    (Handled /\ Matching = {}) => Unwrap(classified) = firstAdded

\* the first element of the set in its order: the greatest priority value,
\* and among equal priority values the lexically greatest name
IsFirstInSetOrder(c) ==
    /\ c \in CategorySet
    /\ \A d \in CategorySet :
          \/ d.priority < c.priority
          \/ d.priority = c.priority /\ StrCmp(d.name, c.name) <= 0

\* C2 amended: when no Word matches any category, classify returns the
\* category with the greatest priority value (the lexically greatest name
\* among several of that priority); it is the first-added category exactly
\* when the first-added category is that one.
C2_FallbackIsFirstInSetOrder ==
    (Handled /\ Matching = {}) =>
        /\ ReturnedCategory
        /\ IsFirstInSetOrder(Classified)
        /\ (Unwrap(classified) = firstAdded) <=> IsFirstInSetOrder(Unwrap(firstAdded))

C2_Witness ==
    /\ Handled
    /\ Matching = {}
    /\ WordTexts # {}
    /\ ReturnedCategory
    /\ Unwrap(classified) # firstAdded
    /\ \E d \in CategorySet : d # Classified /\ d.priority = Classified.priority

\* C3: when no Word matches any category, classify returns a category of
\* the numerically largest priority value, wherever in the order of
\* additions that category came.
C3_FallbackIsLargestPriority ==
    (Handled /\ Matching = {}) =>
        /\ ReturnedCategory
        /\ Classified \in CategorySet
        /\ \A d \in CategorySet : d.priority <= Classified.priority

C3_Witness ==
    /\ Handled
    /\ Matching = {}
    /\ ReturnedCategory
    /\ Classified.name = <<"O">>
    /\ Unwrap(firstAdded).name = <<"S">>
    /\ Cardinality(CategorySet) = 4

\* C4: once a category has been added, classify returns some category for
\* every token sequence, the empty one and one without Word tokens included.
C4_ClassifyTotal ==
    (phase = "replied" /\ categories # None) =>
        /\ ReturnedCategory
        /\ Classified \in CategorySet

C4_Witness ==
    /\ phase = "replied"
    /\ categories # None
    /\ Toks = <<>>
    /\ ReturnedCategory

IsPrefixOf(p, w) == \E k \in 0..Len(w) : p = SubSeq(w, 1, k)

\* the text with every letter in lower case / in upper case
UpperOf == [c \in CHARS |->
               IF \E i \in 1..Len(LOWERCASE) : LOWERCASE[i] = c
               THEN UPPERCASE[CHOOSE i \in 1..Len(LOWERCASE) : LOWERCASE[i] = c]
               ELSE c]

to_uppercase(s) == [i \in 1..Len(s) |-> UpperOf[s[i]]]

PushedCategories ==
    LET pushes == ClassifyPushes(Unwrap(categories), Toks)
    IN  {pushes[i] : i \in 1..Len(pushes)}

\* C5: a category is a candidate exactly when one of its lexemes is a
\* prefix of a lowercased Word of the message (never the word a prefix of
\* the lexeme), and changing the letter case of the message does not change
\* the category classify returns.
C5_MatchingRule ==
    Handled =>
        /\ \A c \in CategorySet :
              c \in PushedCategories <=>
                  \E w \in WordTexts : \E i \in 1..Len(c.lexemes) :
                      IsPrefixOf(c.lexemes[i], to_lowercase(w))
        /\ classify(categories, tokenize(to_uppercase(Unwrap(inp).text))) = Unwrap(classified)
        /\ classify(categories, tokenize(to_lowercase(Unwrap(inp).text))) = Unwrap(classified)

C5_Witness ==
    /\ Handled
    /\ ReturnedCategory
    /\ Word(<<"B">>) \in {Toks[i] : i \in 1..Len(Toks)}
    /\ Word(<<"a", "b">>) \in {Toks[i] : i \in 1..Len(Toks)}
    /\ Classified \in PushedCategories
    /\ \E c \in CategorySet \ PushedCategories :
           \E i \in 1..Len(c.lexemes) : IsPrefixOf(<<"a", "b">>, c.lexemes[i])

\* C6: when the token sequence holds no Amount token, handle_message
\* returns nothing: no record, no event, no reply text.
C6_NoAmountNoRecord ==
    (Handled /\ AmountIndexes = {}) => out = None

C6_Witness ==
    /\ Handled
    /\ AmountIndexes = {}
    /\ WordTexts # {}
    /\ ReturnedCategory
    /\ out = None

Record == Unwrap(out).events[1].record

\* C7: the amount of the record is the value of the leftmost Amount token,
\* with a dot for the separator and no trailing punctuation; later Amount
\* tokens are ignored.
C7_FirstAmountWins ==
    (Handled /\ out # None) =>
        /\ AmountIndexes # {}
        /\ \E i \in AmountIndexes :
              /\ \A j \in AmountIndexes : i <= j
              /\ Record.amount = Toks[i].text
        /\ Record.amount # <<>>
        /\ \A k \in 1..Len(Record.amount) : Record.amount[k] # ","
        /\ Record.amount[Len(Record.amount)] \notin TRAILING_SIGNS

C7_Witness ==
    /\ Handled
    /\ out # None
    /\ Unwrap(inp).text = <<"2", ",", "5", ".", " ", "1">>
    /\ Record.amount = <<"2", ".", "5">>

\* C8: the record's date is today minus the day offset the date-shift
\* resolver returns for the message's tokens, and today when the resolver
\* recognises no pattern.
C8_RecordDateIsShifted ==
    (Handled /\ out # None) =>
        Record.date = today - (IF parse_date_shift(Toks, today) = None
                               THEN 0
                               ELSE Unwrap(parse_date_shift(Toks, today)))

\* the text handed to a bare call of tokenize, and what it returned
Tokenized == phase = "tokens"

Text == Unwrap(inp).text

\* optional minus, one or more digits, optionally a separator out of seps
\* followed by one or two digits
HasAmountForm(s, seps) ==
    LET start == IF s # <<>> /\ s[1] = "-" THEN 2 ELSE 1
        sepAt == {i \in 1..Len(s) : s[i] \in seps}
        digitsAt == {i \in 1..Len(s) : s[i] \in DIGITS}
    IN  /\ Len(s) >= start
        /\ Cardinality(sepAt) <= 1
        /\ (1..Len(s)) \ (sepAt \cup digitsAt) = (IF start = 2 THEN {1} ELSE {})
        /\ \A i \in sepAt : i > start /\ Len(s) - i \in {1, 2}

\* the length of a chunk without its trailing run of signs
StemLen(chunk) ==
    CHOOSE k \in 0..Len(chunk) :
        /\ \A i \in (k + 1)..Len(chunk) : chunk[i] \in TRAILING_SIGNS
        /\ k = 0 \/ chunk[k] \notin TRAILING_SIGNS

\* the tokens the claim gives for one chunk
ExpectedTokens(chunk) ==
    LET stem == SubSeq(chunk, 1, StemLen(chunk))
        suffix == SubSeq(chunk, StemLen(chunk) + 1, Len(chunk))
    IN  <<IF HasAmountForm(stem, {".", ","})
          THEN [kind |-> "Amount", text |-> stem]
          ELSE [kind |-> "Word", text |-> stem]>>
        \o (IF suffix # <<>> THEN <<[kind |-> "TrailingSigns", text |-> suffix]>> ELSE <<>>)

RECURSIVE Flatten(_)
Flatten(seqs) == IF seqs = <<>> THEN <<>> ELSE Head(seqs) \o Flatten(Tail(seqs))

\* a token sequence with the comma of every Amount read as a dot
SameButSeparator(got, expected) ==
    /\ Len(got) = Len(expected)
    /\ \A i \in 1..Len(got) :
          /\ got[i].kind = expected[i].kind
          /\ IF got[i].kind = "Amount"
             THEN /\ Len(got[i].text) = Len(expected[i].text)
                  /\ \A k \in 1..Len(got[i].text) :
                        \/ got[i].text[k] = expected[i].text[k]
                        \/ got[i].text[k] = "." /\ expected[i].text[k] = ","
             ELSE got[i].text = expected[i].text

\* C9: tokenize takes the whitespace-delimited chunks left to right and
\* gives for each first one token for the chunk without its trailing run of
\* . , : ; ! ? (an Amount if that text is a valid amount, else a Word holding
\* it in its original case) and then, exactly when something was stripped,
\* one TrailingSigns token holding the stripped suffix.
C9_TokenizerAlgorithm ==
    Tokenized =>
        LET chunks == split_whitespace(Text)
        IN  SameButSeparator(Toks, Flatten([i \in 1..Len(chunks) |-> ExpectedTokens(chunks[i])]))

C9_Witness ==
    /\ Tokenized
    /\ Text = <<".", " ", "1", ".", ",">>
    /\ Toks = <<Word(<<>>), TrailingSigns(<<".">>), AmountToken(<<"1">>), TrailingSigns(<<".", ",">>)>>

\* C10: every Amount tokenize or Amount::from_str produces is a non-empty
\* string of an optional minus, one or more digits and optionally a dot
\* followed by one or two digits; it never holds a comma.
C10_AmountInvariant ==
    Tokenized =>
        /\ \A i \in AmountIndexes :
              /\ Toks[i].text # <<>>
              /\ HasAmountForm(Toks[i].text, {"."})
              /\ \A k \in 1..Len(Toks[i].text) : Toks[i].text[k] # ","
        /\ Amount_from_str(Text).ok =>
              /\ Amount_from_str(Text).amount # <<>>
              /\ HasAmountForm(Amount_from_str(Text).amount, {"."})

C10_Witness ==
    /\ Tokenized
    /\ Text = <<"-", "1", ",", "1", "1">>
    /\ Toks = <<AmountToken(<<"-", "1", ".", "1", "1">>)>>
    /\ Amount_from_str(Text).ok

\* the tokens that are not TrailingSigns: one for each chunk
MainTokens == SelectSeq(Toks, LAMBDA t : t.kind # "TrailingSigns")

\* a text of digits, separators and minus signs with at least one digit
NumericLooking(s) ==
    /\ \A i \in 1..Len(s) : s[i] \in DIGITS \cup {".", ",", "-"}
    /\ \E i \in 1..Len(s) : s[i] \in DIGITS

\* C11: tokenize returns a token sequence for every input; a numeric-looking
\* chunk that violates the amount format once its trailing signs are
\* stripped (three or more fractional digits, several separators) is
\* emitted as a Word holding that text, not as an Amount and not as an
\* error.
C11_MalformedNumberIsWord ==
    Tokenized =>
        LET chunks == split_whitespace(Text)
        IN  /\ tokens # None
            /\ Len(MainTokens) = Len(chunks)
            /\ \A i \in 1..Len(chunks) :
                  LET stem == SubSeq(chunks[i], 1, StemLen(chunks[i]))
                  IN  NumericLooking(stem) /\ ~HasAmountForm(stem, {".", ","})
                          => MainTokens[i] = Word(stem)

C11_Witness ==
    /\ Tokenized
    /\ Text = <<"1", ".", "1", "1", "1">>
    /\ Toks = <<Word(<<"1", ".", "1", "1", "1">>)>>

\* the text the tokens are rendered back to: a Word as its text, an Amount
\* as its normalised string, a TrailingSigns appended to the token before
\* it, the chunks joined by single spaces
RECURSIVE Render(_)
Render(toks) ==
    IF toks = <<>> THEN <<>>
    ELSE LET t == toks[Len(toks)]
             before == Render(SubSeq(toks, 1, Len(toks) - 1))
         IN  IF t.kind = "TrailingSigns" THEN before \o t.text
             ELSE IF Len(toks) = 1 THEN t.text
             ELSE before \o <<" ">> \o t.text

Kinds(toks) == [i \in 1..Len(toks) |-> toks[i].kind]

\* C12: rendering the tokens of a text back to text and tokenizing that
\* text again yields the same token kinds in the same order.
C12_RetokenizeStable ==
    Tokenized => Kinds(tokenize(Render(Toks))) = Kinds(Toks)

C12_Witness ==
    /\ Tokenized
    /\ Text = <<" ", "1", ",", "1", ".">>
    /\ Render(Toks) = <<"1", ".", "1", ".">>
    /\ Kinds(Toks) = <<"Amount", "TrailingSigns">>

\* a bare call of extract_description has returned
Described == phase = "described"

Description == Unwrap(out)

WordIndexes == {i \in 1..Len(Toks) : Toks[i].kind = "Word"}

NonEmptyWordIndexes == {i \in WordIndexes : Toks[i].text # <<>>}

First(indexes) == CHOOSE i \in indexes : \A j \in indexes : i <= j

\* C18: the description drops leading punctuation: a TrailingSigns token
\* that occurs before any Word has contributed is never included, so the
\* description is empty or begins with the text of the first Word token
\* (of the first Word token that has a text, when the first one has none).
C18_DescriptionDropsLeadingSigns ==
    Described =>
        /\ WordIndexes # {} => starts_with(Description, Toks[First(WordIndexes)].text)
        /\ NonEmptyWordIndexes # {}
              => starts_with(Description, Toks[First(NonEmptyWordIndexes)].text)
        /\ NonEmptyWordIndexes = {} => Description = <<>>

C18_Witness ==
    /\ Described
    /\ Text = <<"1", ".", " ", "A">>
    /\ Toks = <<AmountToken(<<"1">>), TrailingSigns(<<".">>), Word(<<"A">>)>>
    /\ Description = <<"A">>

\* C16: classify on a Categorizer to which no category was ever added
\* panics, whatever the tokens are: the call returns neither a category nor
\* an empty result.
C16_UnloadedClassifyPanics ==
    (categories = None /\ phase \notin {"loading", "idle", "received"}) =>
        /\ phase = "panicked"
        /\ classified = None
        /\ out = None

C16_Witness ==
    /\ phase = "panicked"
    /\ categories = None
    /\ tokens = Some(<<Word(<<"a", "b">>), AmountToken(<<"1">>)>>)

\* the set in its order
CategorySeq == Unwrap(categories)

SameKey(c, d) == c.priority = d.priority /\ c.name = d.name

\* C17: adding a category whose (priority, name) pair equals that of one
\* already in the set leaves the set unchanged (the earlier category is
\* kept with its own lexemes, the size does not grow), and in every
\* reachable state no two categories of the set share (priority, name).
C17_DuplicateIsDropped ==
    /\ categories # None =>
          \A i, j \in 1..Len(CategorySeq) :
              i # j => ~SameKey(CategorySeq[i], CategorySeq[j])
    /\ added # None =>
          LET a == Unwrap(added)
          IN  (a.before # None /\ \E i \in 1..Len(Unwrap(a.before)) :
                                      SameKey(Unwrap(a.before)[i], a.category))
                  => /\ categories = a.before
                     /\ ~a.inserted

C17_Witness ==
    /\ added # None
    /\ ~Unwrap(added).inserted
    /\ Len(CategorySeq) >= 2
    /\ \E i \in 1..Len(CategorySeq) :
          /\ SameKey(CategorySeq[i], Unwrap(added).category)
          /\ CategorySeq[i].lexemes # Unwrap(added).category.lexemes

C20_OneEventPerMessage ==
    (Handled /\ out # None) =>
        LET output == Unwrap(out)
            input == Unwrap(inp)
        IN  /\ Len(output.events) = 1
            /\ output.events[1].kind = (IF input.is_new THEN "AddRecord" ELSE "UpdateRecord")
            /\ Record.id = input.id
            /\ Record.user = input.user
            /\ Record.category = Classified.name
            /\ AmountIndexes # {}
            /\ Record.amount = Toks[First(AmountIndexes)].text
            /\ output.text.head = (IF input.is_new THEN "Added new record #"
                                   ELSE "Updated existed record #")
            /\ output.text.id = input.id

C20_Witness ==
    /\ Handled
    /\ out # None
    /\ ~Unwrap(inp).is_new
    /\ Unwrap(out).events = <<[kind |-> "UpdateRecord", record |-> Record]>>
    /\ Unwrap(out).text.head = "Updated existed record #"
    /\ Unwrap(out).text.id = 2

\* a bare call of a resolver's parse_date_shift has returned
Resolved == phase = "resolved"

Parser == Unwrap(inp).parser

\* what the resolver returned: None or Some(days)
Shift == Unwrap(out)

\* the lower-case names of the weekday with num_days_from_monday = k
NamesOf(k) ==
    IF Parser = "english" THEN {WEEKDAY_NAMES[k + 1][1], WEEKDAY_NAMES[k + 1][2]}
    ELSE WEEKDAY_NAMES_RUS[k + 1]

NamesAWeekday(text) == \E k \in Weekdays : to_lowercase(text) \in NamesOf(k)

TargetOf(text) == CHOOSE k \in Weekdays : to_lowercase(text) \in NamesOf(k)

\* token i is a weekday keyword and token i + 1 a weekday name
WeekdayAt(i) ==
    /\ i + 1 <= Len(Toks)
    /\ Toks[i].kind = "Word" /\ Toks[i].text \in WeekdayKeywords(Parser)
    /\ Toks[i + 1].kind = "Word" /\ NamesAWeekday(Toks[i + 1].text)

\* C13: for "last <weekday>" and "on <weekday>" (Russian: one of the four
\* keywords and a weekday) the offset is (7 + today's days from Monday -
\* the target's days from Monday) mod 7 with 0 rewritten to 7: for all 49
\* pairs it lies in 1..7, is 7 exactly when the target is today's weekday,
\* and today minus the offset falls on the target weekday; days_since gives
\* Fri-since-Mon = 4, Mon-since-Fri = 3, Wed-since-Wed = 0.
C13_WeekdayOffset ==
    /\ days_since(4, 0) = 4 /\ days_since(0, 4) = 3 /\ days_since(2, 2) = 0
    /\ (Resolved /\ Len(Toks) = 2 /\ WeekdayAt(1)) =>
          LET target == TargetOf(Toks[2].text)
              raw == (7 + today - target) % 7
          IN  /\ Shift # None
              /\ Unwrap(Shift) = (IF raw = 0 THEN 7 ELSE raw)
              /\ Unwrap(Shift) \in 1..7
              /\ Unwrap(Shift) = 7 <=> target = today
              /\ (today + 7 - Unwrap(Shift)) % 7 = target

C13_Witness ==
    /\ Resolved
    /\ Parser = "russian"
    /\ today = 4
    /\ Len(Toks) = 2
    /\ Toks[1] = Word(R_v)
    /\ Toks[2].text \in WEEKDAY_NAMES_RUS[5]
    /\ Shift = Some(7)

IsInteger(text) ==
    LET digits == IF text # <<>> /\ text[1] = "-" THEN Tail(text) ELSE text
    IN  digits # <<>> /\ \A k \in 1..Len(digits) : digits[k] \in DIGITS

DigitOf(c) == CHOOSE d \in 0..9 : <<"0", "1", "2", "3", "4", "5", "6", "7", "8", "9">>[d + 1] = c

RECURSIVE NaturalOf(_)
NaturalOf(digits) ==
    IF digits = <<>> THEN 0
    ELSE 10 * NaturalOf(SubSeq(digits, 1, Len(digits) - 1)) + DigitOf(digits[Len(digits)])

IntegerOf(text) == IF text[1] = "-" THEN 0 - NaturalOf(Tail(text)) ELSE NaturalOf(text)

\* the words of the patterns in the resolver's language
YesterdayWords == IF Parser = "english" THEN {W_yesterday} ELSE {R_vchera, R_pozavchera}
DaysWords == IF Parser = "english" THEN {W_days} ELSE {R_den, R_dnei, R_dnya}
WeeksWords == IF Parser = "english" THEN {W_weeks} ELSE {R_nedelyu, R_nedeli, R_nedel}
AgoWord == IF Parser = "english" THEN W_ago ELSE R_nazad
OneWeekWord == IF Parser = "english" THEN W_week ELSE R_nedelyu
OneDayWord == IF Parser = "english" THEN W_day ELSE R_den

\* token i is an Amount and the next two are a unit out of units and "ago"
NumberUnitAgoAt(i, units) ==
    /\ i + 2 <= Len(Toks)
    /\ Toks[i].kind = "Amount"
    /\ Toks[i + 1].kind = "Word" /\ Toks[i + 1].text \in units
    /\ Toks[i + 2] = Word(AgoWord)

\* token i is the word w and the next one is "ago"
WordAgoAt(i, w) ==
    /\ i + 1 <= Len(Toks)
    /\ Toks[i] = Word(w)
    /\ Toks[i + 1] = Word(AgoWord)

\* one of the patterns the resolver's language has starts at token i
PatternAt(i) ==
    \/ Toks[i].kind = "Word" /\ Toks[i].text \in YesterdayWords
    \/ WeekdayAt(i)
    \/ IsInteger(Toks[i].text) /\ NumberUnitAgoAt(i, DaysWords \cup WeeksWords)
    \/ WordAgoAt(i, OneWeekWord)
    \/ WordAgoAt(i, OneDayWord)

NoPatternBefore(i) == \A j \in 1..(i - 1) : ~PatternAt(j)

\* C14: when the first recognised pattern is an integer Amount N followed
\* by "days" and "ago" the resolver gives N days, and followed by "weeks"
\* and "ago" 7 * N days (Russian: one of the three day words resp. week
\* words, then nazad); an Amount with a fractional part never starts this
\* pattern.
C14_NumberOfDaysOrWeeksAgo ==
    Resolved =>
        \A i \in 1..Len(Toks) :
            /\ (NoPatternBefore(i) /\ IsInteger(Toks[i].text) /\ NumberUnitAgoAt(i, DaysWords))
                  => Shift = Some(IntegerOf(Toks[i].text))
            /\ (NoPatternBefore(i) /\ IsInteger(Toks[i].text) /\ NumberUnitAgoAt(i, WeeksWords))
                  => Shift = Some(7 * IntegerOf(Toks[i].text))
            /\ (~IsInteger(Toks[i].text) /\ NumberUnitAgoAt(i, DaysWords \cup WeeksWords)
                   /\ \A j \in 1..Len(Toks) : ~PatternAt(j))
                  => Shift = None

C14_Witness ==
    /\ Resolved
    /\ Parser = "russian"
    /\ Toks = <<AmountToken(<<"2">>), Word(R_nedeli), Word(R_nazad)>>
    /\ Shift = Some(14)

\* C15: with no other pattern earlier in the message, the word "week"
\* immediately followed by "ago" gives 7 days and "day" followed by "ago"
\* 1 day (Russian: nedelyu nazad, den' nazad); a preceding word that is not
\* a number, like "a", does not prevent the match.
C15_AWeekOrADayAgo ==
    Resolved =>
        \A i \in 1..Len(Toks) :
            /\ (NoPatternBefore(i) /\ WordAgoAt(i, OneWeekWord)) => Shift = Some(7)
            /\ (NoPatternBefore(i) /\ WordAgoAt(i, OneDayWord)) => Shift = Some(1)

C15_Witness ==
    /\ Resolved
    /\ Parser = "english"
    /\ Toks = <<Word(<<"a">>), Word(W_week), Word(W_ago)>>
    /\ Shift = Some(7)

\* the matching categories of the best (numerically smallest) priority
BestMatching == {c \in Matching : \A m \in Matching : c.priority <= m.priority}

\* C21: when the best (numerically smallest) priority among the matching
\* categories is shared by several matching categories, classify returns
\* the one with the lexically greater name.
C21_TieBreakGreaterName ==
    (Handled /\ Cardinality(BestMatching) > 1) =>
        /\ ReturnedCategory
        /\ Classified \in BestMatching
        /\ \A c \in BestMatching : StrCmp(Classified.name, c.name) >= 0

\* C21 as amended: among several matching categories of the best priority
\* classify returns the one with the lexically smaller name.
C21_TieBreakSmallerName ==
    (Handled /\ Cardinality(BestMatching) > 1) =>
        /\ ReturnedCategory
        /\ Classified \in BestMatching
        /\ \A c \in BestMatching : StrCmp(Classified.name, c.name) <= 0

C21_Witness ==
    /\ Handled
    /\ ReturnedCategory
    /\ Cardinality(BestMatching) > 1
    /\ Classified.name = <<"F">>
    /\ \E c \in BestMatching : c.name = <<"S">>

\* the offset in days of the pattern that starts at token i
OffsetAt(i) ==
    IF Toks[i].kind = "Word" /\ Toks[i].text \in YesterdayWords
    THEN (IF Toks[i].text = R_pozavchera THEN 2 ELSE 1)
    ELSE IF WeekdayAt(i)
    THEN LET raw == (7 + today - TargetOf(Toks[i + 1].text)) % 7
         IN  IF raw = 0 THEN 7 ELSE raw
    ELSE IF IsInteger(Toks[i].text) /\ NumberUnitAgoAt(i, DaysWords)
    THEN IntegerOf(Toks[i].text)
    ELSE IF IsInteger(Toks[i].text) /\ NumberUnitAgoAt(i, WeeksWords)
    THEN 7 * IntegerOf(Toks[i].text)
    ELSE IF WordAgoAt(i, OneWeekWord) THEN 7
    ELSE 1

PatternIndexes == {i \in 1..Len(Toks) : PatternAt(i)}

\* C22: the resolver returns the offset of the pattern that starts at the
\* smallest token position and ignores every pattern that starts later
\* ("yesterday 2 days ago" gives 1); an integer Amount that is not followed
\* by a unit and "ago" is skipped and a later one can still match; with no
\* pattern anywhere the resolver returns nothing.
C22_FirstPatternWins ==
    Resolved =>
        IF PatternIndexes = {} THEN Shift = None
        ELSE Shift = Some(OffsetAt(First(PatternIndexes)))

C22_Witness ==
    /\ Resolved
    /\ Parser = "english"
    /\ Toks = <<Word(W_yesterday), AmountToken(<<"2">>), Word(W_days), Word(W_ago)>>
    /\ PatternIndexes = {1, 2}
    /\ Shift = Some(1)

\* C27: in the English resolver an integer Amount N followed by the Word
\* "week" (or "day") and then "ago" does not match the numbered pattern at
\* the Amount; the keyword-only pattern matches at the unit word, so the
\* offset is 7 days (resp. 1 day) whatever N is.
C27_SingularUnitIgnoresNumber ==
    (Resolved /\ Parser = "english") =>
        \A i \in 1..Len(Toks) :
            (NoPatternBefore(i) /\ Toks[i].kind = "Amount" /\ IsInteger(Toks[i].text)
                /\ i + 2 <= Len(Toks) /\ Toks[i + 2] = Word(W_ago))
            => /\ Toks[i + 1] = Word(W_week) => Shift = Some(7)
               /\ Toks[i + 1] = Word(W_day) => Shift = Some(1)

C27_Witness ==
    /\ Resolved
    /\ Parser = "english"
    /\ Toks = <<AmountToken(<<"2">>), Word(W_week), Word(W_ago)>>
    /\ Shift = Some(7)

\* the Word tokens directly followed by a TrailingSigns token
WordsBeforeSigns ==
    {i \in WordIndexes : i < Len(Toks) /\ Toks[i + 1].kind = "TrailingSigns"}

\* the Word tokens from token i on joined by single spaces, those of
\* attached with the TrailingSigns token that directly follows them
RECURSIVE JoinWords(_, _, _)
JoinWords(i, attached, result) ==
    IF i > Len(Toks) THEN result
    ELSE IF Toks[i].kind # "Word" THEN JoinWords(i + 1, attached, result)
    ELSE LET piece == Toks[i].text \o (IF i \in attached THEN Toks[i + 1].text ELSE <<>>)
         IN  JoinWords(i + 1, attached,
                       (IF result # <<>> THEN Append(result, " ") ELSE result) \o piece)

\* C23: the description is the Word tokens in order separated by single
\* spaces, and every punctuation run in it is the TrailingSigns token that
\* directly followed the Word it is attached to; a TrailingSigns token that
\* followed an Amount is never attached to a Word.
C23_SignsStayWithTheirWord ==
    Described =>
        \E attached \in SUBSET WordsBeforeSigns : Description = JoinWords(1, attached, <<>>)

\* the characters . , : ; ! ?
Signs == {".", ",", ":", ";", "!", "?"}

\* the number of whitespace-delimited chunks of a text
ChunkCount(text) ==
    Cardinality({k \in 1..Len(text) :
                    /\ text[k] \notin {" ", "\t"}
                    /\ k = 1 \/ text[k - 1] \in {" ", "\t"}})

\* C28: for an input of n whitespace-delimited chunks tokenize returns
\* between n and 2n tokens (none for an empty or whitespace-only input); a
\* TrailingSigns token is never the first token and never directly follows
\* another one; every TrailingSigns text is non-empty and made of the
\* characters . , : ; ! ? only; no Word text ends with one of them.
C28_TokenStructure ==
    Tokenized =>
        /\ ChunkCount(Text) <= Len(Toks) /\ Len(Toks) <= 2 * ChunkCount(Text)
        /\ ChunkCount(Text) = 0 => Toks = <<>>
        /\ Toks # <<>> => Toks[1].kind # "TrailingSigns"
        /\ \A i \in 1..(Len(Toks) - 1) :
              ~(Toks[i].kind = "TrailingSigns" /\ Toks[i + 1].kind = "TrailingSigns")
        /\ \A i \in 1..Len(Toks) :
              /\ Toks[i].kind = "TrailingSigns" =>
                    /\ Toks[i].text # <<>>
                    /\ \A k \in 1..Len(Toks[i].text) : Toks[i].text[k] \in Signs
              /\ (Toks[i].kind = "Word" /\ Toks[i].text # <<>>) =>
                    Toks[i].text[Len(Toks[i].text)] \notin Signs

C28_Witness ==
    /\ Tokenized
    /\ Text = <<"A", ".", ",", " ", "1">>
    /\ ChunkCount(Text) = 2
    /\ Toks = <<Word(<<"A">>), TrailingSigns(<<".", ",">>), AmountToken(<<"1">>)>>

Count(c, s) == Cardinality({k \in 1..Len(s) : s[k] = c})

\* how often c occurs in the texts of the tokens at the given positions
RECURSIVE CountTexts(_, _)
CountTexts(c, indexes) ==
    IF indexes = {} THEN 0
    ELSE LET i == CHOOSE j \in indexes : TRUE
         IN  Count(c, Toks[i].text) + CountTexts(c, indexes \ {i})

EndsWith(s, suffix) ==
    /\ Len(suffix) <= Len(s)
    /\ SubSeq(s, Len(s) - Len(suffix) + 1, Len(s)) = suffix

\* the TrailingSigns tokens with a Word token somewhere after them
SignsBeforeAWord ==
    {i \in 1..Len(Toks) : Toks[i].kind = "TrailingSigns" /\ \E j \in WordIndexes : j > i}

Last(indexes) == CHOOSE i \in indexes : \A j \in indexes : j <= i

\* C29: the text of Amount tokens never appears in the description, a
\* TrailingSigns token is emitted only when a later Word token exists, so
\* punctuation after the last Word is dropped and the description ends
\* with the text of the last Word token.
C29_NoDanglingSignsOrAmounts ==
    Described =>
        /\ \A c \in {Text[k] : k \in 1..Len(Text)} \ (Signs \cup {" ", "\t"}) :
              Count(c, Description) = CountTexts(c, WordIndexes)
        /\ \A c \in Signs :
              Count(c, Description) <= CountTexts(c, WordIndexes \cup SignsBeforeAWord)
        /\ WordIndexes # {} => EndsWith(Description, Toks[Last(WordIndexes)].text)
        /\ WordIndexes = {} => Description = <<>>

C29_Witness ==
    /\ Described
    /\ Text = <<"B", ",", " ", "1", " ", "A", " ", "2", ".">>
    /\ Description = <<"B", ",", " ", "A">>

\* a bare call of last_sheet_ids has returned
Listed == phase = "listed"

SheetIdList == Unwrap(out)

\* the id of the calendar month before that of the id YYYYMM
MonthBefore(id) ==
    LET year == id \div 100
        month == id % 100
    IN  IF month = 1 THEN (year - 1) * 100 + 12 ELSE year * 100 + (month - 1)

\* C24: for a sheet id YYYYMM with a month in 1..12 and count >= 1,
\* last_sheet_ids(id, count) returns exactly count ids, the first being id
\* and each next one the id of the calendar month before the previous one,
\* so every element is a valid YYYYMM and the list is strictly decreasing.
C24_PreviousMonthSheets ==
    Listed =>
        /\ Len(SheetIdList) = Unwrap(inp).count
        /\ SheetIdList[1] = Unwrap(inp).id
        /\ \A k \in 2..Len(SheetIdList) :
              /\ SheetIdList[k] = MonthBefore(SheetIdList[k - 1])
              /\ SheetIdList[k] < SheetIdList[k - 1]
        /\ \A k \in 1..Len(SheetIdList) : SheetIdList[k] % 100 \in 1..12

C24_Witness ==
    /\ Listed
    /\ Unwrap(inp) = [id |-> 202102, count |-> 4]
    /\ SheetIdList = <<202102, 202101, 202012, 202011>>

\* C25: a provider that supplies no category leaves the classifier in the
\* never-loaded state, and a parser built from it panics on every
\* handle_message call, also for inputs without an amount (classify is
\* evaluated before the amount is extracted); in no reachable state does
\* classify return an absent result: it returns a category or panics.
C25_EmptyProviderPanics ==
    /\ firstAdded = None <=> categories = None
    /\ (firstAdded = None /\ tokens # None) =>
          /\ phase = "panicked"
          /\ classified = None
          /\ out = None
    /\ phase = "replied" => ReturnedCategory

C25_Witness ==
    /\ phase = "panicked"
    /\ firstAdded = None
    /\ Toks = <<Word(<<"a", "b">>)>>
    /\ AmountIndexes = {}

\* the categories of the set that hold the empty lexeme
WithEmptyLexeme ==
    {c \in CategorySet : \E i \in 1..Len(c.lexemes) : c.lexemes[i] = <<>>}

\* an empty lexemes string, or an empty item between commas, gives the
\* empty lexeme
EmptyItemIsEmptyLexeme ==
    /\ LexemeList_from(<<>>) = <<<<>>>>
    /\ LexemeList_from(<<"a", ",", ",", "b">>) = <<<<"a">>, <<>>, <<"b">>>>
    /\ LexemeList_from(<<"a", ",", " ">>) = <<<<"a">>, <<>>>>

\* C26: a category whose lexemes string is empty, or holds an empty item
\* between commas, holds the empty lexeme and matches every Word token; for
\* a message with at least one Word it is a candidate and is returned
\* whenever no matching category has a numerically smaller priority.
C26_EmptyLexemeWinsUnlessSmallerPriority ==
    /\ EmptyItemIsEmptyLexeme
    /\ (Handled /\ WordIndexes # {}) =>
          \A c \in WithEmptyLexeme :
              /\ \A w \in WordTexts : match_word(c, w)
              /\ c \in Matching
              /\ (\A m \in Matching : m.priority >= c.priority) => Classified = c

\* C26 as amended: it is returned whenever every other matching category
\* has a numerically greater priority, or the same priority and a
\* lexically greater name.
C26_EmptyLexemeWinsUnlessBetterMatch ==
    /\ EmptyItemIsEmptyLexeme
    /\ (Handled /\ WordIndexes # {}) =>
          \A c \in WithEmptyLexeme :
              /\ \A w \in WordTexts : match_word(c, w)
              /\ c \in Matching
              /\ (\A m \in Matching \ {c} :
                      \/ m.priority > c.priority
                      \/ m.priority = c.priority /\ StrCmp(m.name, c.name) > 0)
                    => Classified = c

C26_Witness ==
    /\ Handled
    /\ Toks = <<Word(<<"B">>), TrailingSigns(<<",">>)>>
    /\ Classified \in WithEmptyLexeme
    /\ Classified.name = <<"M">>
    /\ \E m \in Matching : m.name = <<"S">> /\ m.priority = Classified.priority
    /\ \E m \in Matching : m.priority > Classified.priority

Dispatched == phase = "dispatched"

\* the calls of handle_event that returned an error
Failing == {i \in 1..Len(handled) : handled[i].result.is_err}

\* the rows of the AddRecord events whose call succeeded, in call order
RECURSIVE SavedRows(_)
SavedRows(i) ==
    IF i = 0 THEN <<>>
    ELSE IF handled[i].event.kind = "AddRecord" /\ ~handled[i].result.is_err
         THEN Append(SavedRows(i - 1), handled[i].event.record)
         ELSE SavedRows(i - 1)

\* C30: dispatch returns no reply and calls the event handler zero times
\* when the parser yields no output; otherwise it passes each produced event
\* to the handler exactly once, in order, and returns the parser's text if
\* every call succeeded, or the error message of the last failing call in
\* its place; with the CSV handler every UpdateRecord event fails with
\* "Update record is not implemented yet" and writes nothing.
C30_DispatchPassesEventsAndKeepsLastError ==
    Dispatched =>
        /\ out = None => reply = None /\ handled = <<>> /\ records = <<>>
        /\ out # None =>
              LET output == Unwrap(out)
              IN  /\ Len(handled) = Len(output.events)
                  /\ \A i \in 1..Len(handled) : handled[i].event = output.events[i]
                  /\ Failing = {} => reply = Some(output.text)
                  /\ Failing # {} =>
                        \E i \in Failing :
                            /\ \A j \in Failing : j <= i
                            /\ reply = Some(handled[i].result.err)
        /\ \A i \in 1..Len(handled) :
              handled[i].event.kind = "UpdateRecord" =>
                  handled[i].result = Err("Update record is not implemented yet")
        /\ records = SavedRows(Len(handled))

C30_Witness ==
    /\ Dispatched
    /\ out # None
    /\ Len(handled) = 3
    /\ handled[1].event.kind = "AddRecord" /\ handled[1].result.is_err
    /\ handled[2].event.kind = "UpdateRecord"
    /\ handled[3].event.kind = "AddRecord" /\ ~handled[3].result.is_err
    /\ reply = Some("Update record is not implemented yet")
    /\ records = <<handled[3].event.record>>

====
